---- MODULE Spec2Model ----
(***************************************************************************)
(* A model of DirectXMathExtension.h: the MXM* wrapper types around the    *)
(* DirectXMath memory types, their conversions from and to the SIMD types  *)
(* XMVECTOR / XMMATRIX, the _MXM_USE_OVERWRITE_DEFINES switch and          *)
(* MXMMatrixAbs.                                                           *)
(*                                                                         *)
(* Values.  A float is a record [m, e] standing for m * 2^e, in canonical  *)
(* form: m is odd, or m = 0 and e = 0; |m| < 2^24 (the 24-bit significand  *)
(* of a binary32).  NaN, infinities and the sign of zero are not modelled. *)
(* An XMVECTOR is a sequence of 4 floats, an XMMATRIX a sequence of 4      *)
(* XMVECTORs (r[0..3] of the library is r[1..4] here).  A memory object is *)
(* the sequence of its components in declaration order; a component of an *)
(* XMINT* / XMUINT* object is its 32-bit pattern read as a two's           *)
(* complement integer (so the unsigned value u >= 2^31 is u - 2^32).  A    *)
(* component is a cell [k, m, e]: k = "float" with the float m * 2^e, or   *)
(* k = "int" with the pattern m, or k = "junk" when it was never written.  *)
(***************************************************************************)
EXTENDS Integers, Sequences, FiniteSets, TLC

VARIABLES
  defined,  \* whether _MXM_USE_OVERWRITE_DEFINES is defined for this build
  mem,      \* the memory objects of the program using the header, by address
  xm,       \* the same program written with XM* types and explicit calls
  reg,      \* a local SIMD variable (XMVECTOR or XMMATRIX) of the program
  tmp,      \* a second local XMMATRIX: the result of MXMMatrixAbs(reg)
  last,     \* what the last statement did: its calls, operand and result
  count,    \* per address: the XMLoad* and XMStore* calls executed so far,
            \* and what the last conversion since the last store returned
  run,      \* the run of statements on one object that is under way
  stmts     \* statements executed so far

vars == <<defined, mem, xm, reg, tmp, last, count, run, stmts>>

----------------------------------------------------------------------------
(* Floats *)

\* g_XMAbsMask as stored by XMStoreSInt* on positive overflow: 0x7FFFFFFF.
INT_MAX == 2147483647
\* 0x80000000, the "integer indefinite" of cvttps2dq.
INT_MIN == (-2147483647) - 1
\* 2^24: a binary32 significand holds 24 bits.
TwoTo24 == 16777216

RECURSIVE Pow2(_)
Pow2(k) == IF k <= 0 THEN 1 ELSE 2 * Pow2(k - 1)

AbsInt(x) == IF x < 0 THEN -x ELSE x
SignInt(x) == IF x < 0 THEN -1 ELSE 1

\* The canonical float m * 2^e (m of at most 24 bits).
RECURSIVE Norm(_, _)
Norm(m, e) ==
  IF m = 0 THEN [m |-> 0, e |-> 0]
  ELSE IF m % 2 = 0 THEN Norm(m \div 2, e + 1)
  ELSE [m |-> m, e |-> e]

Zero == [m |-> 0, e |-> 0]
One  == [m |-> 1, e |-> 0]

\* Bits to drop so that a (>= 0) fits a 24-bit significand.
RECURSIVE ShiftFor(_)
ShiftFor(a) == IF a < TwoTo24 THEN 0 ELSE 1 + ShiftFor(a \div 2)

\* cvtdq2ps: a 32-bit signed integer to the nearest float, ties to even.
IntToFloat(x) ==
  IF x = INT_MIN THEN [m |-> -1, e |-> 31]
  ELSE LET a == AbsInt(x)
           k == ShiftFor(a)
           q == a \div Pow2(k)
           r == a % Pow2(k)
           half == Pow2(k - 1)
           up == IF k > 0 /\ (r > half \/ (r = half /\ q % 2 = 1)) THEN 1 ELSE 0
       IN  Norm(SignInt(x) * (q + up), k)

\* |f| >= 2^31: f does not fit a 32-bit signed integer (but for -2^31).
OutOfIntRange(f) ==
  /\ f.m # 0
  /\ f.e >= 0
  /\ (f.e > 30 \/ AbsInt(f.m) > INT_MAX \div Pow2(f.e))

\* cvttps2dq: truncation toward zero; out of range gives 0x80000000.
TruncToInt(f) ==
  IF OutOfIntRange(f) THEN INT_MIN
  ELSE IF f.e >= 0 THEN f.m * Pow2(f.e)
  ELSE IF -f.e > 30 THEN 0
  ELSE SignInt(f.m) * (AbsInt(f.m) \div Pow2(-f.e))

\* f >= 2^32, i.e. f > g_XMMaxUInt (65536*65536 - 256, the float below 2^32).
AtLeastTwoTo32(f) ==
  /\ f.m > 0
  /\ (f.e >= 32 \/ (f.e >= 9 /\ f.m >= Pow2(32 - f.e)))

\* x + g_XMFixUnsigned (2^31) in float arithmetic, for an integral float
\* 0 <= x <= 2^31: the sum lies in [2^31, 2^32], where floats are 256 apart.
AddTwoTo31(x) ==
  IF OutOfIntRange(x) THEN [m |-> 1, e |-> 32]
  ELSE LET xi == TruncToInt(x)
           q == xi \div 256
           r == xi % 256
           up == IF r > 128 \/ (r = 128 /\ q % 2 = 1) THEN 1 ELSE 0
       IN  Norm(Pow2(23) + q + up, 8)

FloatNeg(f) == [m |-> -f.m, e |-> f.e]
FloatAbs(f) == [m |-> AbsInt(f.m), e |-> f.e]
\* f * s for s a signed power of two (exact in binary32).
RECURSIVE FloatScale(_, _)
FloatScale(f, s) ==
  IF s < 0 THEN FloatScale(FloatNeg(f), -s)
  ELSE IF s <= 1 \/ f.m = 0 THEN f
  ELSE FloatScale([m |-> f.m, e |-> f.e + 1], s \div 2)

----------------------------------------------------------------------------
(* DirectXMath: memory types, load and store routines *)

Vec(n, kind, al) ==
  [simd |-> "vector", rows |-> 1, cols |-> n, kind |-> kind, aligned |-> al]
Mat(r, c, al) ==
  [simd |-> "matrix", rows |-> r, cols |-> c, kind |-> "float", aligned |-> al]

\* The library's memory types that the header wraps.
LibType ==
  [ XMFLOAT2    |-> Vec(2, "float", FALSE), XMFLOAT2A   |-> Vec(2, "float", TRUE),
    XMINT2      |-> Vec(2, "sint", FALSE),  XMUINT2     |-> Vec(2, "uint", FALSE),
    XMFLOAT3    |-> Vec(3, "float", FALSE), XMFLOAT3A   |-> Vec(3, "float", TRUE),
    XMINT3      |-> Vec(3, "sint", FALSE),  XMUINT3     |-> Vec(3, "uint", FALSE),
    XMFLOAT4    |-> Vec(4, "float", FALSE), XMFLOAT4A   |-> Vec(4, "float", TRUE),
    XMINT4      |-> Vec(4, "sint", FALSE),  XMUINT4     |-> Vec(4, "uint", FALSE),
    XMFLOAT3X3  |-> Mat(3, 3, FALSE),
    XMFLOAT4X3  |-> Mat(4, 3, FALSE),       XMFLOAT4X3A |-> Mat(4, 3, TRUE),
    XMFLOAT4X4  |-> Mat(4, 4, FALSE),       XMFLOAT4X4A |-> Mat(4, 4, TRUE) ]

LibNames == DOMAIN LibType

\* The store and the load routine the library declares for each memory type.
StoreFn ==
  [ XMFLOAT2    |-> "XMStoreFloat2",   XMFLOAT2A   |-> "XMStoreFloat2A",
    XMINT2      |-> "XMStoreSInt2",    XMUINT2     |-> "XMStoreUInt2",
    XMFLOAT3    |-> "XMStoreFloat3",   XMFLOAT3A   |-> "XMStoreFloat3A",
    XMINT3      |-> "XMStoreSInt3",    XMUINT3     |-> "XMStoreUInt3",
    XMFLOAT4    |-> "XMStoreFloat4",   XMFLOAT4A   |-> "XMStoreFloat4A",
    XMINT4      |-> "XMStoreSInt4",    XMUINT4     |-> "XMStoreUInt4",
    XMFLOAT3X3  |-> "XMStoreFloat3x3",
    XMFLOAT4X3  |-> "XMStoreFloat4x3", XMFLOAT4X3A |-> "XMStoreFloat4x3A",
    XMFLOAT4X4  |-> "XMStoreFloat4x4", XMFLOAT4X4A |-> "XMStoreFloat4x4A" ]

LoadFn ==
  [ XMFLOAT2    |-> "XMLoadFloat2",   XMFLOAT2A   |-> "XMLoadFloat2A",
    XMINT2      |-> "XMLoadSInt2",    XMUINT2     |-> "XMLoadUInt2",
    XMFLOAT3    |-> "XMLoadFloat3",   XMFLOAT3A   |-> "XMLoadFloat3A",
    XMINT3      |-> "XMLoadSInt3",    XMUINT3     |-> "XMLoadUInt3",
    XMFLOAT4    |-> "XMLoadFloat4",   XMFLOAT4A   |-> "XMLoadFloat4A",
    XMINT4      |-> "XMLoadSInt4",    XMUINT4     |-> "XMLoadUInt4",
    XMFLOAT3X3  |-> "XMLoadFloat3x3",
    XMFLOAT4X3  |-> "XMLoadFloat4x3", XMFLOAT4X3A |-> "XMLoadFloat4x3A",
    XMFLOAT4X4  |-> "XMLoadFloat4x4", XMFLOAT4X4A |-> "XMLoadFloat4x4A" ]

StoreRoutines == {StoreFn[t] : t \in LibNames}
LoadRoutines  == {LoadFn[t] : t \in LibNames}

\* The memory type a routine takes a pointer to.
RoutineType(fn) == CHOOSE t \in LibNames : StoreFn[t] = fn \/ LoadFn[t] = fn
RoutineShape(fn) == LibType[RoutineType(fn)]

\* Memory cells.  A cell read as the other kind, or never written, gives
\* a value that no store of the right kind writes (the header never does
\* either read; the reinterpretation of the bits is not modelled).
FloatCell(f) == [k |-> "float", m |-> f.m, e |-> f.e]
IntCell(i) == [k |-> "int", m |-> i, e |-> 0]
JunkCell == [k |-> "junk", m |-> 0, e |-> 0]
JunkFloat == [m |-> 0, e |-> -1]
AsFloat(c) == IF c.k = "float" THEN [m |-> c.m, e |-> c.e] ELSE JunkFloat
AsInt(c) == IF c.k = "int" THEN c.m ELSE 0

\* One component written by a store, by element kind (SSE2 code path):
\* XMStoreFloat* copies; XMStoreSInt* truncates and saturates to
\* [0x80000000, 0x7FFFFFFF]; XMStoreUInt* clamps to [0, 0xFFFFFFFF].
StoreLane(kind, f) ==
  CASE kind = "float" -> FloatCell(f)
    [] kind = "sint" ->
         IntCell(IF f.m > 0 /\ OutOfIntRange(f) THEN INT_MAX ELSE TruncToInt(f))
    [] kind = "uint" ->
         IntCell(IF f.m <= 0 THEN 0
                 ELSE IF AtLeastTwoTo32(f) THEN -1
                 ELSE IF OutOfIntRange(f)
                      THEN (f.m * Pow2(f.e - 8) - Pow2(23)) * 256 + INT_MIN
                 ELSE TruncToInt(f))

\* One lane produced by a load: XMLoadSInt* converts a signed integer,
\* XMLoadUInt* converts the low 31 bits and adds 2^31 when the top bit is set.
LoadLane(kind, c) ==
  CASE kind = "float" -> AsFloat(c)
    [] kind = "sint" -> IntToFloat(AsInt(c))
    [] kind = "uint" ->
         IF AsInt(c) >= 0 THEN IntToFloat(AsInt(c))
         ELSE AddTwoTo31(IntToFloat(AsInt(c) - INT_MIN))

\* The cell at index i of an object, or what lies behind its end.
Peek(data, i) == IF i \in DOMAIN data THEN data[i] ELSE JunkCell

\* The components XMStore<fn>(ptr, arg) writes at ptr.
LibStore(fn, arg) ==
  LET s == RoutineShape(fn) IN
  IF s.simd = "vector"
  THEN [i \in 1..s.cols |-> StoreLane(s.kind, arg[i])]
  ELSE [i \in 1..(s.rows * s.cols) |->
          StoreLane(s.kind, arg[((i - 1) \div s.cols) + 1][((i - 1) % s.cols) + 1])]

\* The SIMD value XMLoad<fn>(ptr) returns for the components data at ptr:
\* missing lanes are 0, missing matrix elements those of the identity.
LibLoad(fn, data) ==
  LET s == RoutineShape(fn) IN
  IF s.simd = "vector"
  THEN [i \in 1..4 |->
          IF i <= s.cols THEN LoadLane(s.kind, Peek(data, i)) ELSE Zero]
  ELSE [r \in 1..4 |-> [c \in 1..4 |->
          IF r <= s.rows /\ c <= s.cols
          THEN LoadLane(s.kind, Peek(data, (r - 1) * s.cols + c))
          ELSE IF r = c THEN One ELSE Zero]]

\* SIMD computations of the library used between a load and a store.
XMVectorNegate(v) == [i \in 1..4 |-> FloatNeg(v[i])]
XMVectorAbs(v) == [i \in 1..4 |-> FloatAbs(v[i])]
XMVectorScale(v, s) == [i \in 1..4 |-> FloatScale(v[i], s)]
\* XMMatrixScaling(s[1], s[2], s[3]) * M for signed powers of two s[i].
XMMatrixScalingMul(s, M) ==
  [r \in 1..4 |-> IF r <= 3 THEN XMVectorScale(M[r], s[r]) ELSE M[r]]
XMMatrixTranspose(M) == [r \in 1..4 |-> [c \in 1..4 |-> M[c][r]]]

----------------------------------------------------------------------------
(* DirectXMathExtension.h: the wrapper types *)

\* A library call made by a method: the routine, the pointer and the SIMD
\* argument (NoValue for a load).
NoValue == <<>>
Call(fn, ptr, arg) == [fn |-> fn, ptr |-> ptr, arg |-> arg]
\* What a method returns: nothing (a constructor), the value its i-th call
\* returned, or a reference to the object at an address (`return *this`).
Void == [what |-> "void", at |-> 0]
ResultOf(i) == [what |-> "value", at |-> i]
Deref(ptr) == [what |-> "ref", at |-> ptr]
Method(calls, ret) == [calls |-> calls, ret |-> ret]

\* `struct MXM<T> : public XM<T>`: the one base class of each wrapper.
Base ==
  [ MXMFLOAT2 |-> "XMFLOAT2",
    MXMFLOAT2A |-> "XMFLOAT2A",
    MXMINT2 |-> "XMINT2",
    MXMUINT2 |-> "XMUINT2",
    MXMFLOAT3 |-> "XMFLOAT3",
    MXMFLOAT3A |-> "XMFLOAT3A",
    MXMINT3 |-> "XMINT3",
    MXMUINT3 |-> "XMUINT3",
    MXMFLOAT4 |-> "XMFLOAT4",
    MXMFLOAT4A |-> "XMFLOAT4A",
    MXMINT4 |-> "XMINT4",
    MXMUINT4 |-> "XMUINT4",
    MXMFLOAT3X3 |-> "XMFLOAT3X3",
    MXMFLOAT4X3 |-> "XMFLOAT4X3",
    MXMFLOAT4X3A |-> "XMFLOAT4X3A",
    MXMFLOAT4X4 |-> "XMFLOAT4X4",
    MXMFLOAT4X4A |-> "XMFLOAT4X4A" ]

WrapperTypes == DOMAIN Base

\* The wrappers declared `__declspec(align(16))`.
DeclaredAlign16 ==
  { "MXMFLOAT2A", "MXMFLOAT3A", "MXMFLOAT4A", "MXMFLOAT4X3A", "MXMFLOAT4X4A" }

\* The data members a wrapper declares beside those of its base: none.
\* MXMFLOAT3 with a data member of its own.
OwnMembers_w ==
  [ MXMFLOAT2 |-> <<>>,
    MXMFLOAT2A |-> <<>>,
    MXMINT2 |-> <<>>,
    MXMUINT2 |-> <<>>,
    MXMFLOAT3 |-> <<"w">>,
    MXMFLOAT3A |-> <<>>,
    MXMINT3 |-> <<>>,
    MXMUINT3 |-> <<>>,
    MXMFLOAT4 |-> <<>>,
    MXMFLOAT4A |-> <<>>,
    MXMINT4 |-> <<>>,
    MXMUINT4 |-> <<>>,
    MXMFLOAT3X3 |-> <<>>,
    MXMFLOAT4X3 |-> <<>>,
    MXMFLOAT4X3A |-> <<>>,
    MXMFLOAT4X4 |-> <<>>,
    MXMFLOAT4X4A |-> <<>> ]

OwnMembers ==
  [ MXMFLOAT2 |-> <<>>,
    MXMFLOAT2A |-> <<>>,
    MXMINT2 |-> <<>>,
    MXMUINT2 |-> <<>>,
    MXMFLOAT3 |-> <<>>,
    MXMFLOAT3A |-> <<>>,
    MXMINT3 |-> <<>>,
    MXMUINT3 |-> <<>>,
    MXMFLOAT4 |-> <<>>,
    MXMFLOAT4A |-> <<>>,
    MXMINT4 |-> <<>>,
    MXMUINT4 |-> <<>>,
    MXMFLOAT3X3 |-> <<>>,
    MXMFLOAT4X3 |-> <<>>,
    MXMFLOAT4X3A |-> <<>>,
    MXMFLOAT4X4 |-> <<>>,
    MXMFLOAT4X4A |-> <<>> ]

\* MXMFLOAT2(FXMVECTOR v), operator const XMVECTOR(), operator=
MXMFLOAT2_ctor(this, v) == Method(<<Call("XMStoreFloat2", this, v)>>, Void)
MXMFLOAT2_conv(this) == Method(<<Call("XMLoadFloat2", this, NoValue)>>, ResultOf(1))
MXMFLOAT2_assign(this, v) == Method(<<Call("XMStoreFloat2", this, v)>>, Deref(this))
\* MXMFLOAT2A(FXMVECTOR v), operator const XMVECTOR(), operator=
MXMFLOAT2A_ctor(this, v) == Method(<<Call("XMStoreFloat2A", this, v)>>, Void)
MXMFLOAT2A_conv(this) == Method(<<Call("XMLoadFloat2A", this, NoValue)>>, ResultOf(1))
MXMFLOAT2A_assign(this, v) == Method(<<Call("XMStoreFloat2A", this, v)>>, Deref(this))
\* MXMINT2(FXMVECTOR v), operator const XMVECTOR(), operator=
MXMINT2_ctor(this, v) == Method(<<Call("XMStoreSInt2", this, v)>>, Void)
MXMINT2_conv(this) == Method(<<Call("XMLoadSInt2", this, NoValue)>>, ResultOf(1))
MXMINT2_assign(this, v) == Method(<<Call("XMStoreSInt2", this, v)>>, Deref(this))
\* MXMUINT2(FXMVECTOR v), operator const XMVECTOR(), operator=
\* The constructor of MXMUINT2 with the store routine of MXMINT2.
MXMUINT2_ctor_signed(this, v) == Method(<<Call("XMStoreSInt2", this, v)>>, Void)
MXMUINT2_ctor(this, v) == Method(<<Call("XMStoreUInt2", this, v)>>, Void)
MXMUINT2_conv(this) == Method(<<Call("XMLoadUInt2", this, NoValue)>>, ResultOf(1))
MXMUINT2_assign(this, v) == Method(<<Call("XMStoreUInt2", this, v)>>, Deref(this))
\* MXMFLOAT3(FXMVECTOR v), operator const XMVECTOR(), operator=
MXMFLOAT3_ctor(this, v) == Method(<<Call("XMStoreFloat3", this, v)>>, Void)
MXMFLOAT3_conv(this) == Method(<<Call("XMLoadFloat3", this, NoValue)>>, ResultOf(1))
\* The assignment of MXMFLOAT3 with the store routine of MXMFLOAT2.
MXMFLOAT3_assign_float2(this, v) == Method(<<Call("XMStoreFloat2", this, v)>>, Deref(this))
MXMFLOAT3_assign(this, v) == Method(<<Call("XMStoreFloat3", this, v)>>, Deref(this))
\* MXMFLOAT3A(FXMVECTOR v), operator const XMVECTOR(), operator=
MXMFLOAT3A_ctor(this, v) == Method(<<Call("XMStoreFloat3A", this, v)>>, Void)
MXMFLOAT3A_conv(this) == Method(<<Call("XMLoadFloat3A", this, NoValue)>>, ResultOf(1))
MXMFLOAT3A_assign(this, v) == Method(<<Call("XMStoreFloat3A", this, v)>>, Deref(this))
\* MXMINT3(FXMVECTOR v), operator const XMVECTOR(), operator=
MXMINT3_ctor(this, v) == Method(<<Call("XMStoreSInt3", this, v)>>, Void)
MXMINT3_conv(this) == Method(<<Call("XMLoadSInt3", this, NoValue)>>, ResultOf(1))
MXMINT3_assign(this, v) == Method(<<Call("XMStoreSInt3", this, v)>>, Deref(this))
\* MXMUINT3(FXMVECTOR v), operator const XMVECTOR(), operator=
MXMUINT3_ctor(this, v) == Method(<<Call("XMStoreUInt3", this, v)>>, Void)
MXMUINT3_conv(this) == Method(<<Call("XMLoadUInt3", this, NoValue)>>, ResultOf(1))
MXMUINT3_assign(this, v) == Method(<<Call("XMStoreUInt3", this, v)>>, Deref(this))
\* MXMFLOAT4(FXMVECTOR v), operator const XMVECTOR(), operator=
MXMFLOAT4_ctor(this, v) == Method(<<Call("XMStoreFloat4", this, v)>>, Void)
MXMFLOAT4_conv(this) == Method(<<Call("XMLoadFloat4", this, NoValue)>>, ResultOf(1))
\* The assignment of MXMFLOAT4 storing through one fixed address.
MXMFLOAT4_assign_static(this, v) == Method(<<Call("XMStoreFloat4", 64, v)>>, Deref(this))
MXMFLOAT4_assign(this, v) == Method(<<Call("XMStoreFloat4", this, v)>>, Deref(this))
\* MXMFLOAT4A(FXMVECTOR v), operator const XMVECTOR(), operator=
MXMFLOAT4A_ctor(this, v) == Method(<<Call("XMStoreFloat4A", this, v)>>, Void)
MXMFLOAT4A_conv(this) == Method(<<Call("XMLoadFloat4A", this, NoValue)>>, ResultOf(1))
MXMFLOAT4A_assign(this, v) == Method(<<Call("XMStoreFloat4A", this, v)>>, Deref(this))
\* MXMINT4(FXMVECTOR v), operator const XMVECTOR(), operator=
MXMINT4_ctor(this, v) == Method(<<Call("XMStoreSInt4", this, v)>>, Void)
\* The conversion of MXMINT4 with the load routine of MXMUINT4.
MXMINT4_conv_unsigned(this) == Method(<<Call("XMLoadUInt4", this, NoValue)>>, ResultOf(1))
MXMINT4_conv(this) == Method(<<Call("XMLoadSInt4", this, NoValue)>>, ResultOf(1))
MXMINT4_assign(this, v) == Method(<<Call("XMStoreSInt4", this, v)>>, Deref(this))
\* MXMUINT4(FXMVECTOR v), operator const XMVECTOR(), operator=
MXMUINT4_ctor(this, v) == Method(<<Call("XMStoreUInt4", this, v)>>, Void)
MXMUINT4_conv(this) == Method(<<Call("XMLoadUInt4", this, NoValue)>>, ResultOf(1))
MXMUINT4_assign(this, v) == Method(<<Call("XMStoreUInt4", this, v)>>, Deref(this))
\* MXMFLOAT3X3(CXMMATRIX m), operator const XMMATRIX(), operator=
MXMFLOAT3X3_ctor(this, m) == Method(<<Call("XMStoreFloat3x3", this, m)>>, Void)
MXMFLOAT3X3_conv(this) == Method(<<Call("XMLoadFloat3x3", this, NoValue)>>, ResultOf(1))
MXMFLOAT3X3_assign(this, m) == Method(<<Call("XMStoreFloat3x3", this, m)>>, Deref(this))
\* MXMFLOAT4X3(CXMMATRIX m), operator const XMMATRIX(), operator=
\* The constructor of MXMFLOAT4X3 with the store routine of MXMFLOAT4X3A.
MXMFLOAT4X3_ctor_aligned(this, m) == Method(<<Call("XMStoreFloat4x3A", this, m)>>, Void)
MXMFLOAT4X3_ctor(this, m) == Method(<<Call("XMStoreFloat4x3", this, m)>>, Void)
MXMFLOAT4X3_conv(this) == Method(<<Call("XMLoadFloat4x3", this, NoValue)>>, ResultOf(1))
MXMFLOAT4X3_assign(this, m) == Method(<<Call("XMStoreFloat4x3", this, m)>>, Deref(this))
\* MXMFLOAT4X3A(CXMMATRIX m), operator const XMMATRIX(), operator=
MXMFLOAT4X3A_ctor(this, m) == Method(<<Call("XMStoreFloat4x3A", this, m)>>, Void)
MXMFLOAT4X3A_conv(this) == Method(<<Call("XMLoadFloat4x3A", this, NoValue)>>, ResultOf(1))
MXMFLOAT4X3A_assign(this, m) == Method(<<Call("XMStoreFloat4x3A", this, m)>>, Deref(this))
\* MXMFLOAT4X4(CXMMATRIX m), operator const XMMATRIX(), operator=
MXMFLOAT4X4_ctor(this, m) == Method(<<Call("XMStoreFloat4x4", this, m)>>, Void)
\* The conversion of MXMFLOAT4X4 with the load routine of MXMFLOAT4X3.
MXMFLOAT4X4_conv_4x3(this) == Method(<<Call("XMLoadFloat4x3", this, NoValue)>>, ResultOf(1))
MXMFLOAT4X4_conv(this) == Method(<<Call("XMLoadFloat4x4", this, NoValue)>>, ResultOf(1))
\* The assignment of MXMFLOAT4X4 reading the object before it stores.
MXMFLOAT4X4_assign_reload(this, m) ==
  Method(<<Call("XMLoadFloat4x4", this, NoValue), Call("XMStoreFloat4x4", this, m)>>,
         Deref(this))
MXMFLOAT4X4_assign(this, m) == Method(<<Call("XMStoreFloat4x4", this, m)>>, Deref(this))
\* MXMFLOAT4X4A(CXMMATRIX m), operator const XMMATRIX(), operator=
MXMFLOAT4X4A_ctor(this, m) == Method(<<Call("XMStoreFloat4x4A", this, m)>>, Void)
MXMFLOAT4X4A_conv(this) == Method(<<Call("XMLoadFloat4x4A", this, NoValue)>>, ResultOf(1))
MXMFLOAT4X4A_assign(this, m) == Method(<<Call("XMStoreFloat4x4A", this, m)>>, Deref(this))

\* Overload resolution by the static type T of the object: T obj(v): the constructor from a SIMD value.
Construct(T, this, v) ==
  CASE T = "MXMFLOAT2" -> MXMFLOAT2_ctor(this, v)
    [] T = "MXMFLOAT2A" -> MXMFLOAT2A_ctor(this, v)
    [] T = "MXMINT2" -> MXMINT2_ctor(this, v)
    [] T = "MXMUINT2" -> MXMUINT2_ctor(this, v)
    [] T = "MXMFLOAT3" -> MXMFLOAT3_ctor(this, v)
    [] T = "MXMFLOAT3A" -> MXMFLOAT3A_ctor(this, v)
    [] T = "MXMINT3" -> MXMINT3_ctor(this, v)
    [] T = "MXMUINT3" -> MXMUINT3_ctor(this, v)
    [] T = "MXMFLOAT4" -> MXMFLOAT4_ctor(this, v)
    [] T = "MXMFLOAT4A" -> MXMFLOAT4A_ctor(this, v)
    [] T = "MXMINT4" -> MXMINT4_ctor(this, v)
    [] T = "MXMUINT4" -> MXMUINT4_ctor(this, v)
    [] T = "MXMFLOAT3X3" -> MXMFLOAT3X3_ctor(this, v)
    [] T = "MXMFLOAT4X3" -> MXMFLOAT4X3_ctor(this, v)
    [] T = "MXMFLOAT4X3A" -> MXMFLOAT4X3A_ctor(this, v)
    [] T = "MXMFLOAT4X4" -> MXMFLOAT4X4_ctor(this, v)
    [] T = "MXMFLOAT4X4A" -> MXMFLOAT4X4A_ctor(this, v)

\* Overload resolution by the static type T of the object: the conversion of a T to a SIMD value.
Convert(T, this) ==
  CASE T = "MXMFLOAT2" -> MXMFLOAT2_conv(this)
    [] T = "MXMFLOAT2A" -> MXMFLOAT2A_conv(this)
    [] T = "MXMINT2" -> MXMINT2_conv(this)
    [] T = "MXMUINT2" -> MXMUINT2_conv(this)
    [] T = "MXMFLOAT3" -> MXMFLOAT3_conv(this)
    [] T = "MXMFLOAT3A" -> MXMFLOAT3A_conv(this)
    [] T = "MXMINT3" -> MXMINT3_conv(this)
    [] T = "MXMUINT3" -> MXMUINT3_conv(this)
    [] T = "MXMFLOAT4" -> MXMFLOAT4_conv(this)
    [] T = "MXMFLOAT4A" -> MXMFLOAT4A_conv(this)
    [] T = "MXMINT4" -> MXMINT4_conv(this)
    [] T = "MXMUINT4" -> MXMUINT4_conv(this)
    [] T = "MXMFLOAT3X3" -> MXMFLOAT3X3_conv(this)
    [] T = "MXMFLOAT4X3" -> MXMFLOAT4X3_conv(this)
    [] T = "MXMFLOAT4X3A" -> MXMFLOAT4X3A_conv(this)
    [] T = "MXMFLOAT4X4" -> MXMFLOAT4X4_conv(this)
    [] T = "MXMFLOAT4X4A" -> MXMFLOAT4X4A_conv(this)

\* Overload resolution by the static type T of the object: obj = v for a SIMD value v.
AssignSimd(T, this, v) ==
  CASE T = "MXMFLOAT2" -> MXMFLOAT2_assign(this, v)
    [] T = "MXMFLOAT2A" -> MXMFLOAT2A_assign(this, v)
    [] T = "MXMINT2" -> MXMINT2_assign(this, v)
    [] T = "MXMUINT2" -> MXMUINT2_assign(this, v)
    [] T = "MXMFLOAT3" -> MXMFLOAT3_assign(this, v)
    [] T = "MXMFLOAT3A" -> MXMFLOAT3A_assign(this, v)
    [] T = "MXMINT3" -> MXMINT3_assign(this, v)
    [] T = "MXMUINT3" -> MXMUINT3_assign(this, v)
    [] T = "MXMFLOAT4" -> MXMFLOAT4_assign(this, v)
    [] T = "MXMFLOAT4A" -> MXMFLOAT4A_assign(this, v)
    [] T = "MXMINT4" -> MXMINT4_assign(this, v)
    [] T = "MXMUINT4" -> MXMUINT4_assign(this, v)
    [] T = "MXMFLOAT3X3" -> MXMFLOAT3X3_assign(this, v)
    [] T = "MXMFLOAT4X3" -> MXMFLOAT4X3_assign(this, v)
    [] T = "MXMFLOAT4X3A" -> MXMFLOAT4X3A_assign(this, v)
    [] T = "MXMFLOAT4X4" -> MXMFLOAT4X4_assign(this, v)
    [] T = "MXMFLOAT4X4A" -> MXMFLOAT4X4A_assign(this, v)

\* #ifdef _MXM_USE_OVERWRITE_DEFINES: `# define XM<T> MXM<T>`.
\* The define of XMINT3 with the replacement of XMUINT3.
OverwriteDefines_copied ==
  [ XMFLOAT2 |-> "MXMFLOAT2",
    XMINT2 |-> "MXMINT2",
    XMUINT2 |-> "MXMUINT2",
    XMFLOAT2A |-> "MXMFLOAT2A",
    XMFLOAT3 |-> "MXMFLOAT3",
    XMFLOAT3A |-> "MXMFLOAT3A",
    XMINT3 |-> "MXMUINT3",
    XMUINT3 |-> "MXMUINT3",
    XMFLOAT4 |-> "MXMFLOAT4",
    XMFLOAT4A |-> "MXMFLOAT4A",
    XMINT4 |-> "MXMINT4",
    XMUINT4 |-> "MXMUINT4",
    XMFLOAT3X3 |-> "MXMFLOAT3X3",
    XMFLOAT4X3 |-> "MXMFLOAT4X3",
    XMFLOAT4X3A |-> "MXMFLOAT4X3A",
    XMFLOAT4X4 |-> "MXMFLOAT4X4",
    XMFLOAT4X4A |-> "MXMFLOAT4X4A" ]

OverwriteDefines ==
  [ XMFLOAT2 |-> "MXMFLOAT2",
    XMINT2 |-> "MXMINT2",
    XMUINT2 |-> "MXMUINT2",
    XMFLOAT2A |-> "MXMFLOAT2A",
    XMFLOAT3 |-> "MXMFLOAT3",
    XMFLOAT3A |-> "MXMFLOAT3A",
    XMINT3 |-> "MXMINT3",
    XMUINT3 |-> "MXMUINT3",
    XMFLOAT4 |-> "MXMFLOAT4",
    XMFLOAT4A |-> "MXMFLOAT4A",
    XMINT4 |-> "MXMINT4",
    XMUINT4 |-> "MXMUINT4",
    XMFLOAT3X3 |-> "MXMFLOAT3X3",
    XMFLOAT4X3 |-> "MXMFLOAT4X3",
    XMFLOAT4X3A |-> "MXMFLOAT4X3A",
    XMFLOAT4X4 |-> "MXMFLOAT4X4",
    XMFLOAT4X4A |-> "MXMFLOAT4X4A" ]

----------------------------------------------------------------------------
(* The program using the header *)

\* Statements per behaviour.
MaxStmts == 4

\* Two places for objects: one 16-byte aligned, one only 4-byte aligned.
Addrs == {64, 132}

Preprocess(name) ==
  IF defined /\ name \in DOMAIN OverwriteDefines
  THEN OverwriteDefines[name] ELSE name

\* The library type whose layout and routines an object of type T has.
LibOf(T) == IF T \in WrapperTypes THEN Base[T] ELSE T
ShapeOf(T) == LibType[LibOf(T)]
SimdOf(T) == ShapeOf(T).simd
AlignOf(T) ==
  IF T \in DeclaredAlign16 \/ ShapeOf(T).aligned THEN 16 ELSE 4
NumComponents(T) ==
  ShapeOf(T).rows * ShapeOf(T).cols
    + (IF T \in WrapperTypes THEN Len(OwnMembers[T]) ELSE 0)

NoObject == [type |-> "none", data |-> <<>>]
\* A default-constructed object: its components are not initialised.
Fresh(T) == [type |-> T, data |-> [i \in 1..NumComponents(T) |-> JunkCell]]

\* A store overwrites the components it covers and no other.
Write(data, new) ==
  [i \in 1..(IF Len(new) > Len(data) THEN Len(new) ELSE Len(data)) |->
     IF i <= Len(new) THEN new[i] ELSE data[i]]

\* One library call executed on the memory m.
ExecCall(m, c) ==
  IF c.fn \in StoreRoutines
  THEN [mem |-> [m EXCEPT ![c.ptr].data = Write(@, LibStore(c.fn, c.arg))],
        val |-> NoValue]
  ELSE [mem |-> m, val |-> LibLoad(c.fn, m[c.ptr].data)]

RECURSIVE RunCalls(_, _, _)
RunCalls(m, calls, vals) ==
  IF calls = <<>> THEN [mem |-> m, vals |-> vals]
  ELSE LET r == ExecCall(m, Head(calls))
       IN  RunCalls(r.mem, Tail(calls), Append(vals, r.val))

\* A method executed on the memory m: the memory after it and what it returns.
Invoke(m, method) ==
  LET r == RunCalls(m, method.calls, <<>>)
  IN  [mem |-> r.mem,
       val |-> IF method.ret.what = "value" THEN r.vals[method.ret.at] ELSE NoValue]

\* `obj = T(v)`: a temporary of obj's type is constructed from v and
\* assigned by the implicit copy assignment, member by member.
CopyAssigned(m, a, v) ==
  LET T == m[a].type
      at == 16
      t == Invoke([p \in {at} |-> Fresh(T)], Construct(T, at, v)).mem[at]
  IN  [m EXCEPT ![a].data =
         [i \in DOMAIN @ |-> IF i \in DOMAIN t.data THEN t.data[i] ELSE @[i]]]

\* `obj = v` and the conversion of obj, for the object at a.
StoreInto(m, a, v) == Invoke(m, AssignSimd(m[a].type, a, v))
LoadFrom(m, a) == Invoke(m, Convert(m[a].type, a))

Loads(calls, a) ==
  Cardinality({i \in DOMAIN calls : calls[i].ptr = a /\ calls[i].fn \in LoadRoutines})
Stores(calls, a) ==
  Cardinality({i \in DOMAIN calls : calls[i].ptr = a /\ calls[i].fn \in StoreRoutines})
NotSeen == [valid |-> FALSE, val |-> NoValue]
\* The counts after a statement that made the calls and converted the
\* object at `at` (0: none) to the SIMD value val.
CountedFrom(cnt, calls, at, val) ==
  [a \in Addrs |->
     [loads  |-> cnt[a].loads + Loads(calls, a),
      stores |-> cnt[a].stores + Stores(calls, a),
      seen   |-> IF Stores(calls, a) > 0 THEN NotSeen
                 ELSE IF a = at THEN [valid |-> TRUE, val |-> val]
                 ELSE cnt[a].seen]]
Counted(calls, at, val) == CountedFrom(count, calls, at, val)
NoCount == [a \in Addrs |-> [loads |-> 0, stores |-> 0, seen |-> NotSeen]]
\* The calls of a statement without their SIMD arguments.
Trace(calls) == [i \in DOMAIN calls |-> [fn |-> calls[i].fn, ptr |-> calls[i].ptr]]

----------------------------------------------------------------------------
(* MXMMatrixAbs and the SIMD values the program computes with *)

\* `XMMATRIX res;` before its rows are assigned.
UninitMatrix == [r \in 1..4 |-> [c \in 1..4 |-> JunkFloat]]

\* The body with the last row taken from r[2] instead of r[3].
MXMMatrixAbsBody_row(mat) ==
  LET s0 == [mat |-> mat, res |-> UninitMatrix]
      s1 == [s0 EXCEPT !.res[1] = XMVectorAbs(s0.mat[1])]
      s2 == [s1 EXCEPT !.res[2] = XMVectorAbs(s1.mat[2])]
      s3 == [s2 EXCEPT !.res[3] = XMVectorAbs(s2.mat[3])]
      s4 == [s3 EXCEPT !.res[4] = XMVectorAbs(s3.mat[3])]
  IN  s4

\* The body of MXMMatrixAbs on its locals: the parameter mat and res.
MXMMatrixAbsBody(mat) ==
  LET s0 == [mat |-> mat, res |-> UninitMatrix]
      s1 == [s0 EXCEPT !.res[1] = XMVectorAbs(s0.mat[1])]
      s2 == [s1 EXCEPT !.res[2] = XMVectorAbs(s1.mat[2])]
      s3 == [s2 EXCEPT !.res[3] = XMVectorAbs(s2.mat[3])]
      s4 == [s3 EXCEPT !.res[4] = XMVectorAbs(s3.mat[4])]
  IN  s4

MXMMatrixAbs(mat) == MXMMatrixAbsBody(mat).res

\* 1.5, -2.5, 3 * 2^30 (above INT_MAX), -0.75
VecA == <<[m |-> 3, e |-> -1], [m |-> -5, e |-> -1], [m |-> 3, e |-> 30], [m |-> -3, e |-> -2]>>
\* -7, 2^32 (above UINT_MAX), 0, 16777217 rounded to a float: 2^24
VecB == <<[m |-> -7, e |-> 0], [m |-> 1, e |-> 32], Zero, IntToFloat(16777217)>>

\* 16 distinct elements k/2, k = 1..16, of alternating sign.
MatA ==
  [r \in 1..4 |-> [c \in 1..4 |->
     Norm((IF (r + c) % 2 = 0 THEN 1 ELSE -1) * (4 * (r - 1) + c), -1)]]
\* XMMatrixTranslation(1, 2, 3)
MatB ==
  [r \in 1..4 |-> [c \in 1..4 |->
     IF r = c THEN One ELSE IF r = 4 THEN Norm(c, 0) ELSE Zero]]

\* The computation of the program on each SIMD type: `v * -2.0f` and
\* `XMMatrixScaling(4, -2, 2) * m`.
Computation(simd) ==
  IF simd = "vector" THEN "XMVectorScale" ELSE "XMMatrixScaling"

Apply(f, x) ==
  CASE f = "XMVectorScale"   -> XMVectorScale(x, -2)
    [] f = "XMMatrixScaling" -> XMMatrixScalingMul(<<4, -2, 2>>, x)

----------------------------------------------------------------------------
(* The same program with the library's types and explicit calls *)

\* XMStore<L>(&obj, v)
XmStore(x, a, L, v) ==
  [x EXCEPT !.obj[a] = Write(@, LibStore(StoreFn[L], v))]
\* XMLoad<L>(&obj)
XmLoad(x, a, L) == LibLoad(LoadFn[L], x.obj[a])
\* XM<L> obj;
XmFresh(x, a, L) == [x EXCEPT !.obj[a] = Fresh(L).data]

----------------------------------------------------------------------------
(* Statements *)

NoRun == [form |-> "none", ptr |-> 0, n |-> 0, loads |-> 0, stores |-> 0]
NoReg == [simd |-> "none", val |-> NoValue]

Statement(op, decl, a, by, calls, arg, ret, f) ==
  [op |-> op, decl |-> decl, ptr |-> a, by |-> by, calls |-> Trace(calls),
   arg |-> arg, ret |-> ret, fn |-> f]
NoStatement == Statement("none", "", 0, "", <<>>, NoValue, Void, "")

\* An object of type T may live at a: the address has T's alignment.
MayLiveAt(a, T) == a % AlignOf(T) = 0

\* The SIMD value an object of type T is initialised from, and the one it is
\* assigned later.
Initial(T) == IF SimdOf(T) = "vector" THEN VecA ELSE MatA
Assigned(T) == IF SimdOf(T) = "vector" THEN VecB ELSE MatB

\* The memory after a statement on the object at a: `reg = obj;`,
\* `obj = v;` or `obj = f(obj);`.
Effect(op, m, a) ==
  LET T == m[a].type
      r == LoadFrom(m, a)
  IN  CASE op = "load"   -> r.mem
        [] op = "assign" -> StoreInto(m, a, Assigned(T)).mem
        [] op = "update" ->
             StoreInto(r.mem, a, Apply(Computation(SimdOf(T)), r.val)).mem

\* A program with one object, declared by its first statement.
Init ==
  /\ defined \in BOOLEAN
  /\ mem = [a \in Addrs |-> NoObject]
  /\ xm = [obj |-> [a \in Addrs |-> <<>>], reg |-> NoValue]
  /\ reg = NoReg
  /\ tmp = NoReg
  /\ last = NoStatement
  /\ count = NoCount
  /\ run = NoRun
  /\ stmts = 0

\* `name obj = v;`  (name is the type name as written in the program)
DeclareInit(a, name) ==
  LET T == Preprocess(name)
      v == Initial(T)
      method == Construct(T, a, v)
      r == Invoke([mem EXCEPT ![a] = Fresh(T)], method)
  IN  /\ stmts < MaxStmts
      /\ \A b \in Addrs : mem[b] = NoObject
      /\ T \in WrapperTypes
      /\ MayLiveAt(a, T)
      /\ mem' = r.mem
      /\ xm' = XmStore(XmFresh(xm, a, LibOf(T)), a, LibOf(T), v)
      /\ last' = Statement("declare", name, a, "method", method.calls, v, method.ret, "")
      /\ count' = Counted(method.calls, 0, NoValue)
      /\ run' = NoRun
      /\ stmts' = stmts + 1
      /\ UNCHANGED <<defined, reg, tmp>>

\* `name obj; XMStore<name>(&obj, v);` for a library type name
DeclareStore(a, name) ==
  LET T == Preprocess(name)
      v == Initial(T)
      calls == <<Call(StoreFn[name], a, v)>>
      r == RunCalls([mem EXCEPT ![a] = Fresh(T)], calls, <<>>)
  IN  /\ stmts < MaxStmts
      /\ \A b \in Addrs : mem[b] = NoObject
      /\ name \in LibNames
      /\ T \in WrapperTypes \cup LibNames
      /\ MayLiveAt(a, T)
      /\ mem' = r.mem
      /\ xm' = XmStore(XmFresh(xm, a, name), a, name, v)
      /\ last' = Statement("declare", name, a, "program", calls, v, Void, "")
      /\ count' = Counted(calls, 0, NoValue)
      /\ run' = NoRun
      /\ stmts' = stmts + 1
      /\ UNCHANGED <<defined, reg, tmp>>

\* `XMVECTOR reg = obj;` / `XMMATRIX reg = obj;`
Load(a) ==
  LET T == mem[a].type
      method == Convert(T, a)
      r == LoadFrom(mem, a)
  IN  /\ stmts < MaxStmts
      /\ T \in WrapperTypes
      /\ mem' = Effect("load", mem, a)
      /\ reg' = [simd |-> SimdOf(T), val |-> r.val]
      /\ xm' = [xm EXCEPT !.reg = XmLoad(xm, a, LibOf(T))]
      /\ last' = Statement("load", "", a, "method", method.calls, NoValue, method.ret, "")
      /\ count' = Counted(method.calls, a, r.val)
      /\ run' = [form |-> "simd", ptr |-> a, n |-> 0,
                 loads |-> count[a].loads, stores |-> count[a].stores]
      /\ stmts' = stmts + 1
      /\ UNCHANGED <<defined, tmp>>

\* `reg = XMLoad<T>(&obj);` on an object of a library type
LoadExplicit(a) ==
  LET T == mem[a].type
      calls == <<Call(LoadFn[T], a, NoValue)>>
      r == RunCalls(mem, calls, <<>>)
  IN  /\ stmts < MaxStmts
      /\ T \in LibNames
      /\ mem' = r.mem
      /\ reg' = [simd |-> SimdOf(T), val |-> r.vals[1]]
      /\ xm' = [xm EXCEPT !.reg = XmLoad(xm, a, T)]
      /\ last' = Statement("load", "", a, "program", calls, NoValue, ResultOf(1), "")
      /\ count' = Counted(calls, a, r.vals[1])
      /\ run' = NoRun
      /\ stmts' = stmts + 1
      /\ UNCHANGED <<defined, tmp>>

\* `obj = v;`
Assign(a) ==
  LET T == mem[a].type
      v == Assigned(T)
      method == AssignSimd(T, a, v)
  IN  /\ stmts < MaxStmts
      /\ T \in WrapperTypes
      /\ mem' = Effect("assign", mem, a)
      /\ xm' = XmStore(xm, a, LibOf(T), v)
      /\ last' = Statement("assign", "", a, "method", method.calls, v, method.ret, "")
      /\ count' = Counted(method.calls, 0, NoValue)
      /\ run' = NoRun
      /\ stmts' = stmts + 1
      /\ UNCHANGED <<defined, reg, tmp>>

\* `reg = f(reg);`, e.g. `simdmat = XMMatrixScaling(4,5,6) * simdmat;`
Compute ==
  LET f == Computation(reg.simd) IN
  /\ stmts < MaxStmts
  /\ reg.simd # "none"
  /\ reg' = [reg EXCEPT !.val = Apply(f, reg.val)]
  /\ xm' = [xm EXCEPT !.reg = Apply(f, xm.reg)]
  /\ last' = Statement("compute", "", 0, "program", <<>>, reg.val, Void, f)
  /\ run' = IF run.form = "simd" THEN [run EXCEPT !.n = @ + 1] ELSE NoRun
  /\ stmts' = stmts + 1
  /\ UNCHANGED <<defined, mem, tmp, count>>

\* `obj = f(reg);`, e.g. `memmat = XMMatrixTranslation(7,8,9) * simdmat;`
AssignComputed(a) ==
  LET T == mem[a].type
      f == Computation(reg.simd)
      v == Apply(f, reg.val)
      method == AssignSimd(T, a, v)
      r == StoreInto(mem, a, v)
  IN  /\ stmts < MaxStmts
      /\ T \in WrapperTypes
      /\ reg.simd = SimdOf(T)
      /\ mem' = r.mem
      /\ xm' = XmStore(xm, a, LibOf(T), Apply(f, xm.reg))
      /\ last' = Statement("assign", "", a, "method", method.calls, v, method.ret, f)
      /\ count' = Counted(method.calls, 0, NoValue)
      /\ run' = IF run.form = "simd" /\ run.ptr = a
                THEN [run EXCEPT !.form = "stored", !.n = @ + 1] ELSE NoRun
      /\ stmts' = stmts + 1
      /\ UNCHANGED <<defined, reg, tmp>>

\* `obj = f(obj);`, e.g. `memmat = XMMatrixScaling(4,5,6) * memmat;`
Update(a) ==
  LET T == mem[a].type
      f == Computation(SimdOf(T))
      conv == Convert(T, a)
      r1 == LoadFrom(mem, a)
      v == Apply(f, r1.val)
      method == AssignSimd(T, a, v)
      calls == conv.calls \o method.calls
  IN  /\ stmts < MaxStmts
      /\ T \in WrapperTypes
      /\ mem' = Effect("update", mem, a)
      /\ xm' = XmStore(xm, a, LibOf(T), Apply(f, XmLoad(xm, a, LibOf(T))))
      /\ last' = Statement("update", "", a, "method", calls, v, method.ret, f)
      /\ count' = Counted(calls, 0, NoValue)
      /\ run' = IF run.form = "lazy" /\ run.ptr = a
                THEN [run EXCEPT !.n = @ + 1]
                ELSE [form |-> "lazy", ptr |-> a, n |-> 1,
                      loads |-> count[a].loads, stores |-> count[a].stores]
      /\ stmts' = stmts + 1
      /\ UNCHANGED <<defined, reg, tmp>>

Names == LibNames \cup WrapperTypes

Next ==
  \/ \E a \in Addrs, name \in Names : DeclareInit(a, name)
  \/ \E a \in Addrs, name \in LibNames : DeclareStore(a, name)
  \/ \E a \in Addrs : Load(a)
  \/ \E a \in Addrs : LoadExplicit(a)
  \/ \E a \in Addrs : Assign(a)
  \/ Compute
  \/ \E a \in Addrs : AssignComputed(a)
  \/ \E a \in Addrs : Update(a)

Spec == Init /\ [][Next]_vars

----------------------------------------------------------------------------
(* A program with two objects *)

\* The types of the second object: one of each element kind, and a matrix.
SecondTypes == {"MXMFLOAT4", "MXMINT3", "MXMUINT2", "MXMFLOAT4X3"}

\* The state after `T1 obj1 = v1; T2 obj2 = v2;`, the first object at the
\* 16-byte aligned address and the second at the other.
InitPair ==
  \E a1 \in Addrs, a2 \in Addrs, T1 \in WrapperTypes, T2 \in SecondTypes :
    LET m1 == Construct(T1, a1, Initial(T1))
        m2 == Construct(T2, a2, Initial(T2))
        r1 == Invoke([a \in Addrs |-> IF a = a1 THEN Fresh(T1) ELSE NoObject], m1)
        r2 == Invoke([r1.mem EXCEPT ![a2] = Fresh(T2)], m2)
        x0 == [obj |-> [a \in Addrs |-> <<>>], reg |-> NoValue]
        x1 == XmStore(XmFresh(x0, a1, LibOf(T1)), a1, LibOf(T1), Initial(T1))
        x2 == XmStore(XmFresh(x1, a2, LibOf(T2)), a2, LibOf(T2), Initial(T2))
    IN  /\ a1 < a2
        /\ MayLiveAt(a1, T1)
        /\ MayLiveAt(a2, T2)
        /\ defined = FALSE
        /\ mem = r2.mem
        /\ xm = x2
        /\ reg = NoReg
        /\ tmp = NoReg
        /\ last = Statement("declare", T2, a2, "method", m2.calls, Initial(T2), m2.ret, "")
        /\ count = CountedFrom(CountedFrom(NoCount, m1.calls, 0, NoValue),
                               m2.calls, 0, NoValue)
        /\ run = NoRun
        /\ stmts = 2

NextPair ==
  \/ \E a \in Addrs : Load(a)
  \/ \E a \in Addrs : Assign(a)
  \/ Compute
  \/ \E a \in Addrs : AssignComputed(a)
  \/ \E a \in Addrs : Update(a)

SpecPair == InitPair /\ [][NextPair]_vars

----------------------------------------------------------------------------
(* A program that applies MXMMatrixAbs *)

\* The rows the matrices of the program are made of.
RowInputs == {VecA, VecB, MatA[1], MatA[4]}

InitAbs ==
  /\ defined = FALSE
  /\ mem = [a \in Addrs |-> NoObject]
  /\ xm = [obj |-> [a \in Addrs |-> <<>>], reg |-> NoValue]
  /\ reg \in {[simd |-> "matrix", val |-> <<r1, r2, r3, r4>>] :
                r1 \in RowInputs, r2 \in RowInputs, r3 \in RowInputs, r4 \in RowInputs}
  /\ tmp = NoReg
  /\ last = NoStatement
  /\ count = NoCount
  /\ run = NoRun
  /\ stmts = 0

\* `XMMATRIX tmp = MXMMatrixAbs(reg);`
Abs ==
  LET s == MXMMatrixAbsBody(reg.val) IN
  /\ stmts < MaxStmts
  /\ reg.simd = "matrix"
  /\ tmp' = [simd |-> "matrix", val |-> s.res]
  /\ reg' = [reg EXCEPT !.val = s.mat]
  /\ last' = Statement("compute", "", 0, "program", <<>>, reg.val, Void, "MXMMatrixAbs")
  /\ stmts' = stmts + 1
  /\ UNCHANGED <<defined, mem, xm, count, run>>

\* `reg = tmp;`
Again ==
  /\ stmts < MaxStmts
  /\ tmp.simd = "matrix"
  /\ reg' = tmp
  /\ last' = Statement("copy", "", 0, "program", <<>>, tmp.val, Void, "")
  /\ stmts' = stmts + 1
  /\ UNCHANGED <<defined, mem, xm, tmp, count, run>>

NextAbs == Abs \/ Again

SpecAbs == InitAbs /\ [][NextAbs]_vars

----------------------------------------------------------------------------
(* A program that assigns a memory object its own conversion *)

\* `explicit MXM<T>(const elem *pArray) : XM<T>(pArray)`: the object holds
\* the first components of the array.
ArrayCtor(T, pArray) ==
  [type |-> T, data |-> [i \in 1..NumComponents(T) |-> pArray[i]]]

\* Component values of the arrays: for the integer types 32-bit patterns
\* around the 24 bits of a float significand and at the ends of the range
\* (-1 is 0xFFFFFFFF and INT_MIN is 0x80000000 when read as unsigned).
IntComps == {0, 1, -1, TwoTo24, TwoTo24 + 1, INT_MAX, INT_MIN}
FloatComps == {Zero, Norm(3, -1), Norm(-5, -1), Norm(1, 32)}
FlatMatrix(M) == [i \in 1..16 |-> FloatCell(M[((i - 1) \div 4) + 1][((i - 1) % 4) + 1])]

\* The arrays an object of type T is constructed from.
Arrays(T) ==
  IF SimdOf(T) = "matrix" THEN {FlatMatrix(MatA), FlatMatrix(MatB)}
  ELSE IF ShapeOf(T).kind = "float"
       THEN {[i \in 1..ShapeOf(T).cols |-> FloatCell(s[i])] :
               s \in [1..ShapeOf(T).cols -> FloatComps]}
       ELSE {[i \in 1..ShapeOf(T).cols |-> IntCell(s[i])] :
               s \in [1..ShapeOf(T).cols -> IntComps]}

\* `T obj(pArray);`
DeclareArray(a, T) ==
  /\ stmts < MaxStmts
  /\ \A b \in Addrs : mem[b] = NoObject
  /\ MayLiveAt(a, T)
  /\ \E pArray \in Arrays(T) :
       /\ mem' = [mem EXCEPT ![a] = ArrayCtor(T, pArray)]
       /\ xm' = [xm EXCEPT !.obj[a] = ArrayCtor(LibOf(T), pArray).data]
  /\ last' = Statement("declare", T, a, "array", <<>>, NoValue, Void, "")
  /\ stmts' = stmts + 1
  /\ UNCHANGED <<defined, reg, tmp, count, run>>

\* `obj = XMVECTOR(obj);` / `obj = XMMATRIX(obj);`
RoundTrip(a) ==
  LET T == mem[a].type
      conv == Convert(T, a)
      r == LoadFrom(mem, a)
      method == AssignSimd(T, a, r.val)
      calls == conv.calls \o method.calls
  IN  /\ stmts < MaxStmts
      /\ T \in WrapperTypes
      /\ mem' = StoreInto(r.mem, a, r.val).mem
      /\ xm' = XmStore(xm, a, LibOf(T), XmLoad(xm, a, LibOf(T)))
      /\ last' = Statement("roundtrip", "", a, "method", calls, r.val, method.ret, "")
      /\ count' = Counted(calls, 0, NoValue)
      /\ stmts' = stmts + 1
      /\ UNCHANGED <<defined, reg, tmp, run>>

NextRound ==
  \/ \E a \in Addrs, T \in WrapperTypes : DeclareArray(a, T)
  \/ \E a \in Addrs : RoundTrip(a)

\* No object yet; the program is compiled without the overwrite defines.
InitRound ==
  /\ defined = FALSE
  /\ mem = [a \in Addrs |-> NoObject]
  /\ xm = [obj |-> [a \in Addrs |-> <<>>], reg |-> NoValue]
  /\ reg = NoReg
  /\ tmp = NoReg
  /\ last = NoStatement
  /\ count = NoCount
  /\ run = NoRun
  /\ stmts = 0

SpecRound == InitRound /\ [][NextRound]_vars

----------------------------------------------------------------------------
(* Properties *)

\* The calls a statement made through the methods of the wrapper.
MethodCalls == IF last.by = "method" THEN last.calls ELSE <<>>

\* C1: the constructor from a SIMD value, the assignment from a SIMD value
\* and the conversion to a SIMD value of every wrapper type make exactly one
\* library call each, on the object itself: the store (constructor,
\* assignment) or load (conversion) routine whose component count, element
\* kind and aligned variant are those of the wrapper's base class.
C1_OneForwardingCall ==
  last.by = "method" =>
    LET T == mem[last.ptr].type
        L == Base[T]
        store == [fn |-> StoreFn[L], ptr |-> last.ptr]
        load == [fn |-> LoadFn[L], ptr |-> last.ptr]
    IN  /\ T \in WrapperTypes
        /\ last.op \in {"declare", "assign"} => last.calls = <<store>>
        /\ last.op = "load" => last.calls = <<load>>
        /\ last.op = "update" => last.calls = <<load, store>>
        /\ \A i \in DOMAIN last.calls :
             /\ RoutineType(last.calls[i].fn) = L
             /\ RoutineShape(last.calls[i].fn) = LibType[L]

\* All three methods of an unsigned integer type have run on one object.
C1_Witness ==
  /\ last.by = "method"
  /\ last.op = "load"
  /\ mem[last.ptr].type = "MXMUINT2"
  /\ count[last.ptr].stores = 2
  /\ count[last.ptr].loads = 1

\* C2: after every statement of a program that constructs memory objects
\* from SIMD values, converts them to SIMD values and assigns SIMD values to
\* them, every memory object holds the same components, and the SIMD
\* variable the same value, as in the same program written with the
\* library's types and explicit load and store calls.
C2_SameAsExplicitCalls ==
  /\ \A a \in Addrs : mem[a] # NoObject => mem[a].data = xm.obj[a]
  /\ reg.simd # "none" => reg.val = xm.reg

\* `MXMFLOAT4X4 memmat = A; memmat = B * memmat;` has run.
C2_Witness ==
  /\ last.op = "update"
  /\ stmts = 3
  /\ mem[last.ptr].type = "MXMFLOAT4X4"
  /\ mem[last.ptr].data = LibStore("XMStoreFloat4x4", Apply("XMMatrixScaling", MatA))
  /\ xm.obj[last.ptr] = mem[last.ptr].data

\* The number of components each wrapper type is named after.
C4_Components ==
  [ MXMFLOAT2 |-> 2,
    MXMFLOAT2A |-> 2,
    MXMINT2 |-> 2,
    MXMUINT2 |-> 2,
    MXMFLOAT3 |-> 3,
    MXMFLOAT3A |-> 3,
    MXMINT3 |-> 3,
    MXMUINT3 |-> 3,
    MXMFLOAT4 |-> 4,
    MXMFLOAT4A |-> 4,
    MXMINT4 |-> 4,
    MXMUINT4 |-> 4,
    MXMFLOAT3X3 |-> 9,
    MXMFLOAT4X3 |-> 12,
    MXMFLOAT4X3A |-> 12,
    MXMFLOAT4X4 |-> 16,
    MXMFLOAT4X4A |-> 16 ]

\* C4: every wrapper type derives from one library memory-type and
\* declares no data member of its own, so a wrapper object consists of
\* exactly the components of its base, as many as an object of the library
\* type has: 2, 3 or 4 for the vectors and 9, 12 or 16 for the 3x3, 4x3 and
\* 4x4 matrices, before and after every operation on it.
C4_LayoutOfBase ==
  /\ DOMAIN C4_Components = WrapperTypes
  /\ \A T \in WrapperTypes :
       /\ Base[T] \in LibNames
       /\ OwnMembers[T] = <<>>
       /\ ShapeOf(T).rows * ShapeOf(T).cols = C4_Components[T]
       /\ ShapeOf(T).simd = "vector" => C4_Components[T] \in {2, 3, 4}
       /\ ShapeOf(T).simd = "matrix" => C4_Components[T] \in {9, 12, 16}
  /\ \A a \in Addrs :
       mem[a].type \in WrapperTypes =>
         /\ Len(mem[a].data) = C4_Components[mem[a].type]
         /\ DOMAIN mem[a].data = DOMAIN xm.obj[a]
         /\ DOMAIN mem[a].data = DOMAIN Fresh(Base[mem[a].type]).data

\* A three-component vector has been constructed and assigned to.
C4_Witness ==
  /\ last.op = "assign"
  /\ mem[last.ptr].type = "MXMFLOAT3"
  /\ Len(mem[last.ptr].data) = 3
  /\ \A i \in 1..3 : mem[last.ptr].data[i].k = "float"

\* C5: with _MXM_USE_OVERWRITE_DEFINES defined, a declaration that names
\* a library memory-type XM<T> declares an object of the wrapper MXM<T> of
\* the same suffix; the replaced names are exactly the library types that
\* have a wrapper and the replacements exactly the wrapper types of the
\* header, each of the shape of the name it replaces; without the switch
\* a declaration declares an object of the type it names.
C5_OverwriteDefines ==
  /\ DOMAIN OverwriteDefines = {Base[T] : T \in WrapperTypes}
  /\ {OverwriteDefines[n] : n \in DOMAIN OverwriteDefines} = WrapperTypes
  /\ \A n \in DOMAIN OverwriteDefines :
       /\ OverwriteDefines[n] = "M" \o n
       /\ Base[OverwriteDefines[n]] = n
       /\ ShapeOf(OverwriteDefines[n]) = LibType[n]
  /\ last.op = "declare" =>
       LET T == mem[last.ptr].type IN
       IF defined /\ last.decl \in LibNames
       THEN T = "M" \o last.decl /\ T \in WrapperTypes /\ Base[T] = last.decl
       ELSE T = last.decl

\* With the switch, `XMINT3 obj; XMStoreSInt3(&obj, v);` declared a wrapper.
C5_Witness ==
  /\ defined
  /\ last.op = "declare"
  /\ last.decl = "XMINT3"
  /\ mem[last.ptr].type = "MXMINT3"
  /\ last.calls = <<[fn |-> "XMStoreSInt3", ptr |-> last.ptr]>>

\* C6: a statement `obj = f(obj)` on a wrapper object makes exactly one
\* load and one store of that object, so n of them in a row make n loads
\* and n stores; converting the object into a SIMD variable, computing on
\* the variable any number of times and assigning the last result back
\* makes one load and one store in total.
C6_LoadsAndStores ==
  /\ last.op = "update" =>
       /\ Loads(last.calls, last.ptr) = 1
       /\ Stores(last.calls, last.ptr) = 1
       /\ Len(last.calls) = 2
  /\ run.form = "lazy" =>
       /\ count[run.ptr].loads - run.loads = run.n
       /\ count[run.ptr].stores - run.stores = run.n
  /\ run.form = "stored" =>
       /\ count[run.ptr].loads - run.loads = 1
       /\ count[run.ptr].stores - run.stores = 1

\* A 4x4 matrix was converted, computed on and the second result stored.
C6_Witness ==
  /\ run.form = "stored"
  /\ run.n = 2
  /\ mem[run.ptr].type = "MXMFLOAT4X4"
  /\ count[run.ptr].loads = 1
  /\ count[run.ptr].stores = 2

\* Two statements `memmat = M * memmat` have run in a row.
C6_WitnessLazy ==
  /\ run.form = "lazy"
  /\ run.n = 2
  /\ mem[run.ptr].type = "MXMFLOAT4X4"
  /\ count[run.ptr].loads = 2
  /\ count[run.ptr].stores = 3

\* C7: after `obj = v` through operator= the object is in the state that
\* constructing a temporary of its type from v and copy-assigning it would
\* leave it in, whatever it held before; the operator returns a reference
\* to the object assigned, so converting the result of `obj = v` gives the
\* value obj now holds.
C7_AssignLikeConstruct ==
  (last.op = "assign" /\ last.by = "method") =>
    /\ \A old \in {mem, [mem EXCEPT ![last.ptr] = Fresh(@.type)]} :
         mem = CopyAssigned(old, last.ptr, last.arg)
    /\ last.ret = Deref(last.ptr)
    /\ LoadFrom(mem, last.ret.at).val = LoadFrom(mem, last.ptr).val
    /\ LoadFrom(mem, last.ret.at).val =
         LoadFrom(CopyAssigned(mem, last.ptr, last.arg), last.ptr).val

\* A 3x3 matrix holding MatA was assigned MatB.
C7_Witness ==
  /\ last.op = "assign"
  /\ last.by = "method"
  /\ mem[last.ptr].type = "MXMFLOAT3X3"
  /\ last.arg = MatB
  /\ mem[last.ptr].data = LibStore("XMStoreFloat3x3", MatB)
  /\ mem[last.ptr].data # LibStore("XMStoreFloat3x3", MatA)

\* C8: exactly MXMFLOAT2A, MXMFLOAT3A, MXMFLOAT4A, MXMFLOAT4X3A and
\* MXMFLOAT4X4A are declared 16-byte aligned, and they are the wrappers of
\* the aligned library types; a method of the wrapper calls an aligned
\* routine only on an object of one of these types, which lies at a
\* 16-byte aligned address, and a method of any other wrapper type calls
\* unaligned routines only.
C8_AlignedRoutines ==
  /\ DeclaredAlign16 =
       {"MXMFLOAT2A", "MXMFLOAT3A", "MXMFLOAT4A", "MXMFLOAT4X3A", "MXMFLOAT4X4A"}
  /\ DeclaredAlign16 = {T \in WrapperTypes : LibType[Base[T]].aligned}
  /\ \A i \in DOMAIN MethodCalls :
       LET c == MethodCalls[i]
           T == mem[c.ptr].type
       IN  /\ RoutineShape(c.fn).aligned =>
                (T \in DeclaredAlign16 /\ c.ptr % 16 = 0)
           /\ T \notin DeclaredAlign16 => ~RoutineShape(c.fn).aligned
           /\ T \in DeclaredAlign16 => RoutineShape(c.fn).aligned

\* An aligned 4x4 matrix was loaded and stored by `obj = f(obj)`.
C8_Witness ==
  /\ last.op = "update"
  /\ mem[last.ptr].type = "MXMFLOAT4X4A"
  /\ last.ptr % 16 = 0
  /\ last.calls = <<[fn |-> "XMLoadFloat4x4A", ptr |-> last.ptr],
                    [fn |-> "XMStoreFloat4x4A", ptr |-> last.ptr]>>

\* An unaligned 4x3 matrix at an address that is not 16-byte aligned.
C8_WitnessUnaligned ==
  /\ last.op = "update"
  /\ mem[last.ptr].type = "MXMFLOAT4X3"
  /\ last.ptr % 16 # 0

\* The operations on one object and the second of two distinct objects.
C9_Ops == {"load", "assign", "update"}
C9_Other(a) == CHOOSE b \in Addrs : b # a

\* Two operations on distinct objects give the same memory in either
\* order, and each object the value its own operation alone gives it.
C9_Commute ==
  \A a \in Addrs, p \in C9_Ops, q \in C9_Ops :
    LET b == C9_Other(a)
        ma == Effect(p, mem, a)
        mb == Effect(q, mem, b)
        ab == Effect(q, ma, b)
        ba == Effect(p, mb, a)
    IN  (a < b /\ mem[a].type \in WrapperTypes /\ mem[b].type \in WrapperTypes) =>
          /\ ab = ba
          /\ ab[a] = ma[a]
          /\ ab[b] = mb[b]

\* A conversion changes no object; a statement on one object changes no
\* other object; an assignment leaves the SIMD variable it reads unchanged;
\* a conversion of an object not assigned since its last conversion gives
\* the value that conversion gave.
C9_Frame ==
  /\ last'.op = "load" => mem' = mem
  /\ \A a \in Addrs : a # last'.ptr => mem'[a] = mem[a]
  /\ last'.op \in {"assign", "update"} => reg' = reg
  /\ (last'.op = "load" /\ count[last'.ptr].seen.valid) =>
       reg'.val = count[last'.ptr].seen.val

C10_MatrixAbs ==
  last.fn = "MXMMatrixAbs" =>
    /\ DOMAIN tmp.val = 1..4
    /\ \A r \in 1..4 :
         /\ DOMAIN tmp.val[r] = 1..4
         /\ \A c \in 1..4 :
              /\ tmp.val[r][c] = FloatAbs(last.arg[r][c])
              /\ tmp.val[r][c].m >= 0
    /\ reg.val = last.arg
    /\ MXMMatrixAbs(tmp.val) = tmp.val
    /\ MXMMatrixAbs(MXMMatrixAbs(last.arg)) = MXMMatrixAbs(last.arg)

\* The absolute value of a matrix with negative elements in every row,
\* its rows all different, was taken.
C10_Witness ==
  /\ last.fn = "MXMMatrixAbs"
  /\ last.arg = <<VecA, VecB, MatA[1], MatA[4]>>
  /\ tmp.val # last.arg
  /\ tmp.val[4] = XMVectorAbs(MatA[4])

\* The 32-bit pattern c, read as a signed or as an unsigned integer, is a
\* value that a binary32 float represents exactly: it has at most 24
\* significant bits.
C11_Representable(kind, c) ==
  IF kind = "sint" \/ c >= 0
  THEN c = INT_MIN \/ Norm(AbsInt(c), 0).m < TwoTo24
  ELSE (c - INT_MIN) % 256 = 0

\* C11 as stated: `obj = XMVECTOR(obj)` / `obj = XMMATRIX(obj)` leaves
\* every component of obj unchanged, for the float types and for the
\* signed and unsigned integer types over their whole range.
C11_RoundTripIdentity ==
  [][last'.op = "roundtrip" => mem'[last'.ptr] = mem[last'.ptr]]_vars

\* C11, amended: `obj = XMVECTOR(obj)` / `obj = XMMATRIX(obj)` leaves
\* unchanged every component of an object of a float type, and every
\* component of an object of a signed or unsigned integer type whose value
\* a 32-bit float represents exactly; the object keeps its type and its
\* number of components.
C11_RoundTripRepresentable ==
  [][last'.op = "roundtrip" =>
       LET a == last'.ptr
           kind == ShapeOf(mem[a].type).kind
       IN  /\ mem'[a].type = mem[a].type
           /\ DOMAIN mem'[a].data = DOMAIN mem[a].data
           /\ \A i \in DOMAIN mem[a].data :
                (kind = "float" \/ C11_Representable(kind, mem[a].data[i].m)) =>
                  mem'[a].data[i] = mem[a].data[i]]_vars

\* An MXMUINT4 holding 0, 2^24, 0x80000000 and 0xFFFFFFFF was converted
\* (to 0, 2^24, 2^31 and 2^32) and assigned the result.
C11_Witness ==
  /\ last.op = "roundtrip"
  /\ mem[last.ptr].type = "MXMUINT4"
  /\ last.arg = <<Zero, Norm(1, 24), Norm(1, 31), Norm(1, 32)>>
  /\ mem[last.ptr].data =
       <<IntCell(0), IntCell(TwoTo24), IntCell(INT_MIN), IntCell(-1)>>

----------------------------------------------------------------------------
====
